---- MODULE Spec2Model ----
(***************************************************************************)
(* mongoose-sub-references-integrity-checker (src/index.js).               *)
(*                                                                         *)
(* A store of documents of three models forming a chain of sub-references: *)
(*   Message.contact (ObjectId)   --subRef-->  Person.contacts             *)
(*   Note.about      ([ObjectId]) --subRef-->  Message.parts               *)
(* The registry `refs`, the three deletion policies, the root-deletion     *)
(* hooks, the change-detecting validator, the post-save batch of deferred  *)
(* updates and subRefsUpdates() are translated from src/index.js.  A       *)
(* client calls one operation at a time on an up-to-date document instance *)
(* and awaits it; subRefsUpdates() may be called while a batch is running. *)
(***************************************************************************)
EXTENDS Integers, Sequences, FiniteSets, TLC

VARIABLES refs, validators, schemaTypes, store, inst, last

vars == <<refs, validators, schemaTypes, store, inst, last>>

\* ------------------------------------------------------------------ bounds

\* futures handed out by subRefsUpdates() on one document instance
MaxWaiters == 2

\* ---------------------------------------------------------------- universe

Null == "null"
NoError == "none"
SubRefConstraintError == "SubRefConstraintError"
ValidationError == "ValidationError"
TypeError == "TypeError"

ModelNames == <<"Person", "Message", "Note">>

DocIds == {"p1", "m1", "m2", "n1"}

ModelOf(d) ==
  CASE d = "p1" -> "Person"
    [] d \in {"m1", "m2"} -> "Message"
    [] d = "r1" -> "Reply"
    [] d = "t1" -> "Team"
    [] d \in {"y1", "y2"} -> "Player"
    [] OTHER -> "Note"

\* ids of the sub-documents a document can carry in its array field
ElemsOf(d) ==
  CASE d = "p1" -> {"c0", "c1"}
    [] d = "m1" -> {"a1"}
    [] d = "m2" -> {"a2"}
    [] d = "t1" -> {"s1"}
    [] d = "y1" -> {"r1"}
    [] d = "y2" -> {"r2"}
    [] OTHER -> {}

\* the documents whose array the client changes and saves
Saved == {"p1"}

\* the declared sub-reference fields, named <referencing model>.<path>
Fields == {"Message.contact", "Note.about"}

\* the schema declaration of a field: the model it is declared in, its path,
\* its subRef option split at the dots, and the constructor of its schema type
Decl(f) ==
  CASE f = "Message.contact" ->
         [modelName |-> "Message", path |-> <<"contact">>,
          subRef |-> <<"Person", "contacts">>, constructor |-> "ObjectId"]
    [] f = "Reply.to" ->
         [modelName |-> "Reply", path |-> <<"to">>,
          subRef |-> <<"Person", "contacts">>, constructor |-> "ObjectId"]
    [] f = "Tag.of" ->
         [modelName |-> "Tag", path |-> <<"of">>,
          subRef |-> <<"Person", "name">>, constructor |-> "ObjectId"]
    [] f = "Player.seat" ->
         [modelName |-> "Player", path |-> <<"seat">>,
          subRef |-> <<"Team", "seats">>, constructor |-> "ObjectId"]
    [] f = "Team.lead" ->
         [modelName |-> "Team", path |-> <<"lead">>,
          subRef |-> <<"Player", "roles">>, constructor |-> "ObjectId"]
    [] OTHER ->
         [modelName |-> "Note", path |-> <<"about">>,
          subRef |-> <<"Message", "parts">>, constructor |-> "SchemaArray"]

\* two more declarations, of models registered only in the study of the
\* registry: a second reference into Person.contacts, and a reference whose
\* target Person.name is not an array
MoreFields == {"Reply.to", "Tag.of"}

AllFields == Fields \cup MoreFields

\* the paths of the target models that are arrays
ArrayPaths ==
  {<<"Person", "contacts">>, <<"Message", "parts">>, <<"Team", "seats">>, <<"Player", "roles">>}

\* fields of a model in schema.eachPath order
FieldsOf(modelName) ==
  CASE modelName = "Message" -> <<"Message.contact">>
    [] modelName = "Note" -> <<"Note.about">>
    [] modelName = "Reply" -> <<"Reply.to">>
    [] modelName = "Tag" -> <<"Tag.of">>
    [] modelName = "Team" -> <<"Team.lead">>
    [] modelName = "Player" -> <<"Player.seat">>
    [] OTHER -> <<>>

\* longest referencing path of the study of the update query
MaxPath == 4

\* segments of the referencing paths of a model Tree whose schema nests
\* arrays of sub-documents (as, bs) and plain sub-documents (c) around its
\* reference field
ArraySegments == {"as", "bs"}

Segments == ArraySegments \cup {"c", "ref"}

TreePaths == UNION {[1..n -> Segments] : n \in 1..MaxPath}

\* paths of the referencing schemas that are arrays of sub-documents
DocumentArrayPaths == {<<"Tree", p>> : p \in {q \in TreePaths : q[Len(q)] \in ArraySegments}}

\* the path a boundTo option of Message.contact names on the Person document
BoundToPath == <<"owner">>

\* no boundTo option
NoPath == <<>>

\* the array path of a model that sub-references point into
ArrayPathOf(modelName) == IF modelName = "Person" THEN <<"contacts">> ELSE <<"parts">>

\* ---------------------------------------------------------------- documents

Absent(d) ==
  [here |-> FALSE, arr |-> {},
   ref |-> IF ModelOf(d) = "Note" THEN {} ELSE Null,
   del |-> FALSE, owner |-> Null]

\* document.get(path)
Get(document, path) ==
  IF path = BoundToPath THEN document.owner ELSE document.arr

\* the values a new document can be created with
NewDocs(d, bound) ==
  CASE ModelOf(d) = "Person" ->
         { [here |-> TRUE, arr |-> ElemsOf(d), ref |-> Null, del |-> FALSE, owner |-> o] :
             o \in IF bound THEN {Null, "m1"} ELSE {Null} }
    [] ModelOf(d) \in {"Message", "Reply"} ->
         { [here |-> TRUE, arr |-> ElemsOf(d), ref |-> r, del |-> FALSE, owner |-> Null] :
             r \in {Null} \cup ElemsOf("p1") }
    [] OTHER ->
         { [here |-> TRUE, arr |-> {}, ref |-> r, del |-> FALSE, owner |-> Null] :
             r \in SUBSET (ElemsOf("m1") \cup ElemsOf("m2")) }

\* --------------------------------------------------------------- registry

\* refs[key] || []
Lookup(r, key) == IF key \in DOMAIN r THEN r[key] ELSE <<>>

\* Return model name of the subRef
getRootRef(subRef) == <<Head(subRef)>>

Put(r, key, val) == [k \in DOMAIN r \cup {key} |-> IF k = key THEN val ELSE r[k]]

\* eachPath on a field that declares a subRef: the list of the root model is
\* rebuilt from refs[<the whole subRef string>] and the new entry, and a
\* validator is attached to the referenced array path
eachPath(reg, f) ==
  [refs |-> Put(reg.refs, getRootRef(Decl(f).subRef),
                Append(Lookup(reg.refs, Decl(f).subRef),
                       [modelName |-> Decl(f).modelName, path |-> Decl(f).path,
                        schemaType |-> f])),
   validators |-> Put(reg.validators, Decl(f).subRef,
                      Append(Lookup(reg.validators, Decl(f).subRef), f))]

RECURSIVE eachPaths(_, _)
eachPaths(reg, fs) ==
  IF fs = <<>> THEN reg ELSE eachPaths(eachPath(reg, Head(fs)), Tail(fs))

plugin(reg, modelName) ==
  eachPaths([refs |-> IF <<modelName>> \in DOMAIN reg.refs THEN reg.refs
                      ELSE Put(reg.refs, <<modelName>>, <<>>),
             validators |-> reg.validators],
            FieldsOf(modelName))

RECURSIVE plugins(_, _)
plugins(reg, names) ==
  IF names = <<>> THEN reg ELSE plugins(plugin(reg, Head(names)), Tail(names))

EmptyRegistry == [refs |-> <<>>, validators |-> <<>>]

\* ------------------------------------------------------------ path resolver

\* a faulty query builder: the bound value is ignored
getFindQueryObjectFor_unbound(modelRef, pathRef, referencedValues, boundRefValue) ==
  [by |-> "$in", id |-> Null, path |-> pathRef, values |-> referencedValues]

getFindQueryObjectFor(modelRef, pathRef, referencedValues, boundRefValue) ==
  IF boundRefValue # Null
  THEN [by |-> "_id", id |-> boundRefValue, path |-> <<>>, values |-> {}]
  ELSE [by |-> "$in", id |-> Null, path |-> pathRef, values |-> referencedValues]

\* does a stored document of modelRef match a find query
Matches(s, modelRef, query, d) ==
  /\ ModelOf(d) = modelRef
  /\ s[d].here
  /\ IF query.by = "_id" THEN d = query.id
     ELSE IF ModelOf(d) = "Note" THEN s[d].ref \cap query.values # {}
     ELSE s[d].ref \in query.values

Find(s, modelRef, query) == {d \in DOMAIN s : Matches(s, modelRef, query, d)}

\* path.filter((_, i2) => i2 <= i) for the 0-based index i
Prefix(path, i) == SubSeq(path, 1, i + 1)

\* the 0-based indices i < path.length - 1 whose prefix is a DocumentArrayPath
ArrayHops(modelRef, path) ==
  {i \in 0..(Len(path) - 2) : <<modelRef, Prefix(path, i)>> \in DocumentArrayPaths}

Max(S) == CHOOSE x \in S : \A y \in S : y <= x

\* a faulty path builder: the named filter goes to the first array hop
RECURSIVE UpdatePathFrom_first(_, _, _)
UpdatePathFrom_first(modelRef, path, i) ==
  IF i >= Len(path) - 1 THEN <<path[Len(path)]>>
  ELSE <<path[i + 1]>>
       \o (IF i \in ArrayHops(modelRef, path)
           THEN IF \A h \in ArrayHops(modelRef, path) : i <= h THEN <<"$[j]">> ELSE <<"$[]">>
           ELSE <<>>)
       \o UpdatePathFrom_first(modelRef, path, i + 1)

RECURSIVE UpdatePathFrom(_, _, _)
UpdatePathFrom(modelRef, path, i) ==
  IF i >= Len(path) - 1 THEN <<path[Len(path)]>>
  ELSE <<path[i + 1]>>
       \o (IF i \in ArrayHops(modelRef, path)
           THEN IF i = Max(ArrayHops(modelRef, path)) THEN <<"$[j]">> ELSE <<"$[]">>
           ELSE <<>>)
       \o UpdatePathFrom(modelRef, path, i + 1)

\* a faulty query builder: the filter condition is on the whole path
getUpdateQueryObjectFor_wholePath(modelRef, pathRef, referencedValues) ==
  LET hops == ArrayHops(modelRef, pathRef)
  IN [operator |-> "$set",
      updatePath |-> UpdatePathFrom(modelRef, pathRef, 0),
      values |-> referencedValues,
      arrayFilters |-> IF hops = {} THEN <<>>
                       ELSE <<[path |-> <<"j">> \o pathRef, values |-> referencedValues]>>]

getUpdateQueryObjectFor(modelRef, pathRef, referencedValues) ==
  LET hops == ArrayHops(modelRef, pathRef)
      operator == IF \E f \in Fields : /\ Decl(f).modelName = modelRef
                                       /\ Decl(f).path = pathRef
                                       /\ Decl(f).constructor = "SchemaArray"
                  THEN "$pull" ELSE "$set"
  IN [operator |-> operator,
      updatePath |-> UpdatePathFrom(modelRef, pathRef, 0),
      values |-> referencedValues,
      arrayFilters |-> IF hops = {} THEN <<>>
                       ELSE <<[path |-> <<"j">> \o SubSeq(pathRef, Max(hops) + 2, Len(pathRef)),
                               values |-> referencedValues]>>]

\* a faulty update: the whole reference value is cleared, whatever it held
ApplyUpdate_clear(document, update) ==
  [document EXCEPT !.ref = IF update.operator = "$pull" THEN {} ELSE Null]

\* the reference value a matched document holds after the update
ApplyUpdate(document, update) ==
  [document EXCEPT !.ref = IF update.operator = "$pull" THEN @ \ update.values
                           ELSE Null]

\* Model.updateMany(query, update)
updateMany(s, modelRef, query, update) ==
  [d \in DOMAIN s |-> IF Matches(s, modelRef, query, d) THEN ApplyUpdate(s[d], update)
                      ELSE s[d]]

\* ------------------------------------------------------------ policy engine

HardDelete == [softDelete |-> FALSE, deleted |-> FALSE]

SoftDeleteOptions(v) == [softDelete |-> TRUE, deleted |-> v]

Done(s) == [store |-> s, err |-> NoError]

\* a faulty set-null: the bulk update also runs on a soft delete
onDeleteSetNull_always(s, modelRef, pathRef, referencedValues, boundRefValue, opts) ==
  Done(updateMany(s, modelRef,
                  getFindQueryObjectFor(modelRef, pathRef, referencedValues, boundRefValue),
                  getUpdateQueryObjectFor(modelRef, pathRef, referencedValues)))

onDeleteSetNull(s, modelRef, pathRef, referencedValues, boundRefValue, opts) ==
  IF ~opts.softDelete
  THEN Done(updateMany(s, modelRef,
                       getFindQueryObjectFor(modelRef, pathRef, referencedValues, boundRefValue),
                       getUpdateQueryObjectFor(modelRef, pathRef, referencedValues)))
  ELSE Done(s)

\* a faulty block: the check runs only for a soft delete
onDeleteBlock_softOnly(s, modelRef, pathRef, referencedValues, boundRefValue, opts) ==
  IF opts.softDelete /\ opts.deleted
     /\ Find(s, modelRef,
             getFindQueryObjectFor(modelRef, pathRef, referencedValues, boundRefValue)) # {}
  THEN [store |-> s, err |-> SubRefConstraintError]
  ELSE Done(s)

\* a faulty block: the check also runs on a restore
onDeleteBlock_always(s, modelRef, pathRef, referencedValues, boundRefValue, opts) ==
  IF Find(s, modelRef,
          getFindQueryObjectFor(modelRef, pathRef, referencedValues, boundRefValue)) # {}
  THEN [store |-> s, err |-> SubRefConstraintError]
  ELSE Done(s)

onDeleteBlock(s, modelRef, pathRef, referencedValues, boundRefValue, opts) ==
  IF (~opts.softDelete \/ opts.deleted)
     /\ Find(s, modelRef,
             getFindQueryObjectFor(modelRef, pathRef, referencedValues, boundRefValue)) # {}
  THEN [store |-> s, err |-> SubRefConstraintError]
  ELSE Done(s)

RECURSIVE removal(_, _, _, _)

\* Promise.all(documents.map(doc => doc.deleteOne() | doc.softDelete(_deleted))):
\* every document's operation runs to its end, the first error is the result
RECURSIVE removeAll(_, _, _, _)
removeAll(s, found, documents, opts) ==
  IF documents = {} THEN Done(s)
  ELSE LET d == CHOOSE x \in documents : TRUE
           r1 == removal(s, d, found[d], opts)
           r2 == removeAll(r1.store, found, documents \ {d}, opts)
       IN [store |-> r2.store, err |-> IF r1.err # NoError THEN r1.err ELSE r2.err]

\* a faulty cascade: a hard delete removes the found documents with one bulk
\* delete, which triggers no hook of theirs
onDeleteCascade_deleteMany(s, modelRef, pathRef, referencedValues, boundRefValue, opts) ==
  LET documents == Find(s, modelRef,
                        getFindQueryObjectFor(modelRef, pathRef, referencedValues, boundRefValue))
  IN IF opts.softDelete THEN removeAll(s, s, documents, opts)
     ELSE Done([d \in DOMAIN s |-> IF d \in documents THEN Absent(d) ELSE s[d]])

\* a faulty cascade: a soft delete always calls doc.softDelete(true)
onDeleteCascade_alwaysDeleted(s, modelRef, pathRef, referencedValues, boundRefValue, opts) ==
  removeAll(s, s,
            Find(s, modelRef,
                 getFindQueryObjectFor(modelRef, pathRef, referencedValues, boundRefValue)),
            [opts EXCEPT !.deleted = TRUE])

onDeleteCascade(s, modelRef, pathRef, referencedValues, boundRefValue, opts) ==
  removeAll(s, s,
            Find(s, modelRef,
                 getFindQueryObjectFor(modelRef, pathRef, referencedValues, boundRefValue)),
            opts)

\* a faulty dispatch: the cascade flag is looked at first
onDeleteConditions_cascadeFirst(s, schemaType, modelRef, pathRef, referencedValues, boundRefValue, opts) ==
  IF schemaTypes[schemaType].cascade
  THEN onDeleteCascade(s, modelRef, pathRef, referencedValues, boundRefValue, opts)
  ELSE IF schemaTypes[schemaType].required
       THEN onDeleteBlock(s, modelRef, pathRef, referencedValues, boundRefValue, opts)
       ELSE onDeleteSetNull(s, modelRef, pathRef, referencedValues, boundRefValue, opts)

onDeleteConditions(s, schemaType, modelRef, pathRef, referencedValues, boundRefValue, opts) ==
  IF schemaTypes[schemaType].required
  THEN IF schemaTypes[schemaType].cascade
       THEN onDeleteCascade(s, modelRef, pathRef, referencedValues, boundRefValue, opts)
       ELSE onDeleteBlock(s, modelRef, pathRef, referencedValues, boundRefValue, opts)
  ELSE onDeleteSetNull(s, modelRef, pathRef, referencedValues, boundRefValue, opts)

\* referenced ids or exact values
getReferencedValues(pathSubRef, referencedDocument) == Get(referencedDocument, pathSubRef)

\* schemaType.options.boundTo ? document.get(schemaType.options.boundTo) : null
BoundRefValue(schemaType, document) ==
  IF schemaTypes[schemaType].boundTo # NoPath
  THEN Get(document, schemaTypes[schemaType].boundTo) ELSE Null

\* the loop of onDelete over refs[modelName], one descriptor after the other
RECURSIVE onDeleteFrom(_, _, _, _, _)
onDeleteFrom(s, modelName, document, entries, opts) ==
  IF entries = <<>> THEN Done(s)
  ELSE LET e == Head(entries)
           pathSubRef == Tail(Decl(e.schemaType).subRef)
           r == onDeleteConditions(s, e.schemaType, e.modelName, e.path,
                                   getReferencedValues(pathSubRef, document),
                                   BoundRefValue(e.schemaType, document), opts)
       IN \* document.get(pathSubRef).map of a value that is not an array
          IF <<modelName>> \o pathSubRef \notin ArrayPaths
          THEN [store |-> s, err |-> TypeError]
          ELSE IF r.err # NoError THEN r
          ELSE onDeleteFrom(r.store, modelName, document, Tail(entries), opts)

onDelete(s, modelName, document, opts) ==
  onDeleteFrom(s, modelName, document, Lookup(refs, <<modelName>>), opts)

\* document.deleteOne() / document.remove() (hard) or document.softDelete(v):
\* the pre hook runs onDelete; only when it passes is the document removed,
\* or saved with its new soft-deleted flag
removal(s, d, document, opts) ==
  LET r == onDelete(s, ModelOf(d), document, opts)
  IN IF r.err # NoError THEN r
     ELSE IF opts.softDelete
          THEN Done([r.store EXCEPT ![d].del = IF r.store[d].here THEN opts.deleted ELSE @])
          ELSE Done([r.store EXCEPT ![d] = Absent(d)])

deleteOne(s, d) == removal(s, d, s[d], HardDelete)

\* the document's _deleted as the caller's instance holds it after softDelete(v)
preSoftDelete(s, d, v) ==
  LET r == removal(s, d, s[d], SoftDeleteOptions(v))
  IN [store |-> r.store, err |-> r.err,
      deleted |-> IF r.err = SubRefConstraintError THEN FALSE ELSE v]

\* ---------------------------------------------------------- change detector

\* the validation v after the remover of field f ran at once with result r:
\* a constraint error fails the validation and sets the in-memory array back
\* to rollback
Checked(v, f, rollback, r) ==
  [v EXCEPT !.err = IF r.err = SubRefConstraintError THEN ValidationError ELSE @,
            !.arr = IF r.err = SubRefConstraintError THEN rollback ELSE @,
            !.store = r.store,
            !.ran = @ \cup {f}]

\* a faulty validator: a blocked removal leaves the in-memory array as the
\* caller changed it
validator_noRollback(s, d, f, oldValues, newValues, v) ==
  LET deletedValues == oldValues \ newValues
      r == onDeleteConditions(v.store, f, Decl(f).modelName, Decl(f).path, deletedValues,
                              BoundRefValue(f, s[d]), HardDelete)
  IN IF deletedValues = {} THEN v
     ELSE IF schemaTypes[f].required /\ ~schemaTypes[f].cascade
          THEN Checked(v, f, v.arr, r)
          ELSE [v EXCEPT !.queue = Append(@, [schemaType |-> f, removed |-> deletedValues])]

\* a faulty validator: the deferred remover is handed the whole prior array
validator_allValues(s, d, f, oldValues, newValues, v) ==
  LET deletedValues == oldValues \ newValues
      r == onDeleteConditions(v.store, f, Decl(f).modelName, Decl(f).path, deletedValues,
                              BoundRefValue(f, s[d]), HardDelete)
  IN IF deletedValues = {} THEN v
     ELSE IF schemaTypes[f].required /\ ~schemaTypes[f].cascade
          THEN Checked(v, f, oldValues, r)
          ELSE [v EXCEPT !.queue = Append(@, [schemaType |-> f, removed |-> oldValues])]

\* a faulty validator: every required reference is enforced during validation
validator_required(s, d, f, oldValues, newValues, v) ==
  LET deletedValues == oldValues \ newValues
      r == onDeleteConditions(v.store, f, Decl(f).modelName, Decl(f).path, deletedValues,
                              BoundRefValue(f, s[d]), HardDelete)
  IN IF deletedValues = {} THEN v
     ELSE IF schemaTypes[f].required
          THEN Checked(v, f, oldValues, r)
          ELSE [v EXCEPT !.queue = Append(@, [schemaType |-> f, removed |-> deletedValues])]

\* one validator of the referenced array path, attached by setValidator for
\* field f: v is the validation so far, with its error, the deferred removers
\* (this.$locals.subRefUpdateAfterSave), the in-memory array, the store as
\* the removers that ran at once left it, and the fields whose remover ran
validator(s, d, f, oldValues, newValues, v) ==
  LET deletedValues == oldValues \ newValues
      r == onDeleteConditions(v.store, f, Decl(f).modelName, Decl(f).path, deletedValues,
                              BoundRefValue(f, s[d]), HardDelete)
  IN IF deletedValues = {} THEN v
     ELSE IF schemaTypes[f].required /\ ~schemaTypes[f].cascade
          THEN Checked(v, f, oldValues, r)
          ELSE [v EXCEPT !.queue = Append(@, [schemaType |-> f, removed |-> deletedValues])]

\* a validation before its first validator: s is the store, queue the
\* removers already on the instance, arr the array the caller set
Validation(s, queue, arr) ==
  [err |-> NoError, queue |-> queue, arr |-> arr, store |-> s, ran |-> {}]

RECURSIVE validate(_, _, _, _, _, _)
validate(s, d, fs, oldValues, newValues, v) ==
  IF fs = <<>> \/ v.err # NoError THEN v
  ELSE validate(s, d, Tail(fs), oldValues, newValues,
                validator(s, d, Head(fs), oldValues, newValues, v))

\* ------------------------------------------------------------- the instance

\* the document instance save() was last called on: its deferred removers, the
\* state of the batch the post-save hook started, the $locals flag
\* subRefUpdatedAfterSave and the futures subRefsUpdates() returned
NoInstance ==
  [doc |-> Null, queue |-> <<>>, tasks |-> <<>>, batch |-> "none",
   updated |-> "undefined", futs |-> <<>>]

Running(i) == \E k \in DOMAIN i.tasks : i.tasks[k] = "running"

\* the client's last call has returned
ClientIdle == inst.batch # "running" /\ ~Running(inst)

\* the client's last call: the operation, the document, the soft-deleted flag
\* asked for, the error it failed with, the store before the call, the array
\* and the flag the caller's instance holds after it, the removed values
Called(op, d, flag, err, pre, arr, del, removed) ==
  [op |-> op, doc |-> d, flag |-> flag, err |-> err, pre |-> pre, arr |-> arr,
   del |-> del, removed |-> removed]

\* ------------------------------------------------------------------ actions

Policies ==
  { [required |-> r, cascade |-> c, boundTo |-> b] :
      r \in BOOLEAN, c \in BOOLEAN, b \in {NoPath, BoundToPath} }

Init ==
  /\ refs = plugins(EmptyRegistry, ModelNames).refs
  /\ validators = plugins(EmptyRegistry, ModelNames).validators
  /\ schemaTypes \in { t \in [Fields -> Policies] :
                         /\ t["Note.about"].boundTo = NoPath
                         /\ (t["Note.about"].cascade => t["Note.about"].required) }
  /\ store = [d \in DocIds |-> Absent(d)]
  /\ inst = NoInstance
  /\ last = Called("init", Null, FALSE, NoError, store, {}, FALSE, {})

\* new Model(values).save(): no prior value, so no validator finds a removal
Create(d) ==
  /\ ClientIdle
  /\ <<ModelOf(d)>> \in DOMAIN refs
  /\ ~store[d].here
  /\ \E document \in NewDocs(d, schemaTypes["Message.contact"].boundTo # NoPath) :
       /\ store' = [store EXCEPT ![d] = document]
       /\ last' = Called("create", d, FALSE, NoError, store, document.arr, FALSE, {})
  /\ inst' = NoInstance
  /\ UNCHANGED <<refs, validators, schemaTypes>>

\* document.deleteOne() and document.remove(): the same pre hook
DeleteOne(d) ==
  /\ ClientIdle
  /\ store[d].here
  /\ last' = Called("deleteOne", d, FALSE, deleteOne(store, d).err, store, store[d].arr,
                   store[d].del, {})
  /\ store' = deleteOne(store, d).store
  /\ inst' = NoInstance
  /\ UNCHANGED <<refs, validators, schemaTypes>>

\* document.softDelete(v)
SoftDelete(d) ==
  /\ ClientIdle
  /\ store[d].here
  /\ \E v \in BOOLEAN :
       /\ store' = preSoftDelete(store, d, v).store
       /\ last' = Called("softDelete", d, v, preSoftDelete(store, d, v).err, store,
                         store[d].arr, preSoftDelete(store, d, v).deleted, {})
  /\ inst' = NoInstance
  /\ UNCHANGED <<refs, validators, schemaTypes>>

\* the caller sets the array to newValues and calls document.save(): the
\* validators of the array path run, then the commit, then the post-save hook
\* starts every deferred remover
Save(d) ==
  /\ ClientIdle
  /\ store[d].here
  /\ d \in Saved
  /\ \E newValues \in SUBSET ElemsOf(d) :
       LET oldValues == store[d].arr
       IN \E v \in {validate(store, d,
                             Lookup(validators, <<ModelOf(d)>> \o ArrayPathOf(ModelOf(d))),
                             oldValues, newValues,
                             Validation(store, <<>>, newValues))} :
          /\ last' = Called("save", d, FALSE, v.err, store, v.arr, store[d].del,
                            oldValues \ newValues)
          /\ store' = IF v.err = NoError THEN [v.store EXCEPT ![d].arr = newValues]
                      ELSE v.store
          /\ inst' = IF v.err = NoError /\ v.queue # <<>>
                     THEN [doc |-> d, queue |-> v.queue,
                           tasks |-> [k \in DOMAIN v.queue |-> "running"],
                           batch |-> "running", updated |-> "false", futs |-> <<>>]
                     ELSE [NoInstance EXCEPT !.doc = d, !.queue = v.queue]
  /\ UNCHANGED <<refs, validators, schemaTypes>>

\* one deferred remover of the running batch runs to its end
TaskRun(k) ==
  /\ k \in DOMAIN inst.tasks
  /\ inst.tasks[k] = "running"
  /\ LET t == inst.queue[k]
         r == onDeleteConditions(store, t.schemaType, Decl(t.schemaType).modelName,
                                 Decl(t.schemaType).path, t.removed,
                                 BoundRefValue(t.schemaType, store[inst.doc]), HardDelete)
     IN /\ store' = r.store
        /\ inst' = [inst EXCEPT !.tasks[k] = IF r.err = NoError THEN "ok" ELSE "failed"]
  /\ UNCHANGED <<refs, validators, schemaTypes, last>>

\* a faulty fan-out: only the latest waiter is notified
Settle_latest(futs, status) ==
  [k \in DOMAIN futs |-> IF futs[k] = "pending" /\ k = Len(futs) THEN status ELSE futs[k]]

Settle(futs, status) ==
  [k \in DOMAIN futs |-> IF futs[k] = "pending" THEN status ELSE futs[k]]

\* Promise.all resolved: the hook deletes the queue, calls the resolver and
\* sets subRefUpdatedAfterSave
BatchResolve ==
  /\ inst.batch = "running"
  /\ \A k \in DOMAIN inst.tasks : inst.tasks[k] = "ok"
  /\ inst' = [inst EXCEPT !.batch = "finished", !.updated = "true",
                          !.futs = Settle(@, "resolved")]
  /\ UNCHANGED <<refs, validators, schemaTypes, store, last>>

\* Promise.all rejected with the first failure: the hook deletes the queue,
\* calls the rejecter, sets subRefUpdatedAfterSave and save() fails
BatchReject ==
  /\ inst.batch = "running"
  /\ \E k \in DOMAIN inst.tasks : inst.tasks[k] = "failed"
  /\ inst' = [inst EXCEPT !.batch = "finished", !.updated = "true",
                          !.futs = Settle(@, "rejected")]
  /\ last' = [last EXCEPT !.err = SubRefConstraintError]
  /\ UNCHANGED <<refs, validators, schemaTypes, store>>

\* a faulty subRefsUpdates(): the future is resolved at once, whatever the flag
subRefsUpdates_eager ==
  /\ inst.doc # Null
  /\ Len(inst.futs) < MaxWaiters
  /\ inst' = [inst EXCEPT !.futs = Append(@, "resolved")]
  /\ UNCHANGED <<refs, validators, schemaTypes, store, last>>

\* a faulty subRefsUpdates(): a call after the batch has finished starts the
\* deferred removers again
subRefsUpdates_rerun ==
  /\ inst.doc # Null
  /\ Len(inst.futs) < MaxWaiters
  /\ inst' = [inst EXCEPT !.futs = Append(@, IF inst.updated = "true" THEN "resolved"
                                             ELSE "pending"),
                          !.tasks = IF inst.updated = "true"
                                    THEN [k \in DOMAIN @ |-> "running"] ELSE @]
  /\ UNCHANGED <<refs, validators, schemaTypes, store, last>>

\* document.subRefsUpdates() on the instance save() was called on
subRefsUpdates ==
  /\ inst.doc # Null
  /\ Len(inst.futs) < MaxWaiters
  /\ inst' = [inst EXCEPT !.futs = Append(@, IF inst.updated = "true" THEN "resolved"
                                             ELSE "pending")]
  /\ UNCHANGED <<refs, validators, schemaTypes, store, last>>

\* hard deletes and saves
Next ==
  \/ \E d \in DocIds : Create(d)
  \/ \E d \in DocIds : DeleteOne(d)
  \/ \E d \in DocIds : Save(d)
  \/ \E k \in DOMAIN inst.tasks : TaskRun(k)
  \/ BatchResolve
  \/ BatchReject
  \/ subRefsUpdates

Spec == Init /\ [][Next]_vars

\* soft deletes and restores (mongoose-soft-deleting on every model)
NextSoft ==
  \/ \E d \in DocIds : Create(d)
  \/ \E d \in DocIds : SoftDelete(d)

SpecSoft == Init /\ [][NextSoft]_vars

\* ------------------------------------------------------------ registration

\* registrations of models with sub-references in one process
MaxRegistrations == 3

\* the models of the registry study and their documents
RegModels == {"Person", "Message", "Reply", "Tag"}

RegDocIds == {"p1", "m1", "r1"}

RECURSIVE SumLen(_, _)
SumLen(r, keys) ==
  IF keys = {} THEN 0
  ELSE LET k == CHOOSE x \in keys : TRUE IN Len(r[k]) + SumLen(r, keys \ {k})

\* validators attached so far: one per registration of a declaring field
Registrations == SumLen(validators, DOMAIN validators)

\* consistentModel(modelName, schema) / plugin(modelName, schema); the models
\* its fields point into are registered already, as mongoose.model(subRefModel)
\* in setValidator needs
Register(modelName) ==
  /\ ClientIdle
  /\ \A k \in DOMAIN FieldsOf(modelName) :
       getRootRef(Decl(FieldsOf(modelName)[k]).subRef) \in DOMAIN refs
  /\ Registrations + Len(FieldsOf(modelName)) <= MaxRegistrations
  /\ refs' = plugin([refs |-> refs, validators |-> validators], modelName).refs
  /\ validators' = plugin([refs |-> refs, validators |-> validators], modelName).validators
  /\ last' = Called("register", modelName, FALSE, NoError, store, {}, FALSE, {})
  /\ inst' = NoInstance
  /\ UNCHANGED <<schemaTypes, store>>

\* policies without boundTo, cascade only on a required reference
NoBound(t) == \A f \in DOMAIN t : t[f].boundTo = NoPath /\ (t[f].cascade => t[f].required)

InitReg ==
  /\ refs = EmptyRegistry.refs
  /\ validators = EmptyRegistry.validators
  /\ schemaTypes \in { t \in [AllFields -> Policies] :
                         /\ NoBound(t)
                         /\ t["Note.about"] = t["Tag.of"]
                         /\ t["Tag.of"].required /\ ~t["Tag.of"].cascade }
  /\ store = [d \in RegDocIds |-> Absent(d)]
  /\ inst = NoInstance
  /\ last = Called("init", Null, FALSE, NoError, store, {}, FALSE, {})

NextReg ==
  \/ \E modelName \in RegModels : Register(modelName)
  \/ \E d \in RegDocIds : Create(d)
  \/ \E d \in RegDocIds : DeleteOne(d)

SpecReg == InitReg /\ [][NextReg]_vars

\* ------------------------------------------------------ concurrent clients

\* the values a reference field of a document holds
ValuesOf(d, document) ==
  IF ModelOf(d) = "Note" THEN document.ref
  ELSE IF document.ref = Null THEN {}
  ELSE {document.ref}

\* the elements of the stored arrays of a model
Elements(s, modelName) ==
  UNION {s[t].arr : t \in {x \in DOMAIN s : ModelOf(x) = modelName /\ s[x].here}}

\* every value the document's reference field holds is an element of a
\* stored array of the root model of its field
RefsExist(s, d, document) ==
  \A f \in Fields :
    Decl(f).modelName = ModelOf(d) =>
      ValuesOf(d, document) \subseteq Elements(s, Head(Decl(f).subRef))

\* no call is between its pre hook and its commit
Quiescent == inst.batch = "none"

\* a client saves a new document that points at elements that exist; another
\* client's deleteOne() may be between its pre hook and its commit
CreateValid(d) ==
  /\ ~store[d].here
  /\ \E document \in NewDocs(d, FALSE) :
       /\ RefsExist(store, d, document)
       /\ store' = [store EXCEPT ![d] = document]
  /\ UNCHANGED <<refs, validators, schemaTypes, inst, last>>

\* document.deleteOne(): the pre('deleteOne') hook has run onDelete to its end
DeleteBegin(d) ==
  /\ Quiescent
  /\ store[d].here
  /\ LET r == onDelete(store, ModelOf(d), store[d], HardDelete)
     IN /\ store' = r.store
        /\ last' = Called("deleteOne", d, FALSE, r.err, store, store[d].arr, store[d].del, {})
        /\ inst' = IF r.err = NoError
                   THEN [NoInstance EXCEPT !.doc = d, !.batch = "deleting"]
                   ELSE NoInstance
  /\ UNCHANGED <<refs, validators, schemaTypes>>

\* document.deleteOne(): the hook passed, the document is removed
DeleteCommit ==
  /\ inst.batch = "deleting"
  /\ store' = [store EXCEPT ![inst.doc] = Absent(inst.doc)]
  /\ inst' = NoInstance
  /\ UNCHANGED <<refs, validators, schemaTypes, last>>

InitRace ==
  /\ refs = plugins(EmptyRegistry, ModelNames).refs
  /\ validators = plugins(EmptyRegistry, ModelNames).validators
  /\ schemaTypes \in { t \in [Fields -> Policies] : NoBound(t) }
  /\ store = [d \in DocIds |-> Absent(d)]
  /\ inst = NoInstance
  /\ last = Called("init", Null, FALSE, NoError, store, {}, FALSE, {})

NextRace ==
  \/ \E d \in DocIds : CreateValid(d)
  \/ \E d \in DocIds : DeleteBegin(d)
  \/ DeleteCommit

SpecRace == InitRace /\ [][NextRace]_vars

\* ------------------------------------------------- one instance, many saves

\* save() calls on the one instance
MaxSaves == 2

ReuseModels == <<"Person", "Message", "Reply", "Note">>

ReuseDocIds == {"p1", "m1", "r1", "n1"}

\* the instance of Person p1 the client loads once and saves again and again:
\* queue is this.$locals.subRefUpdateAfterSave (<<>> when deleted or never
\* set), each remover with the number of the save() whose validation made it;
\* calls are the invocations of removers by the post-save hook, each with its
\* batch (the hook run that made it); batches are the hook runs, "running"
\* until their Promise.all settles; outcome is what each save() came to
Loaded ==
  [doc |-> "p1", queue |-> <<>>, calls |-> <<>>, batches |-> <<>>, outcome |-> <<>>,
   updated |-> "undefined", futs |-> <<>>]

\* the queue as the validators see it, and with the removers they appended
\* marked as made by save number n
Closures(queue) ==
  [k \in DOMAIN queue |-> [schemaType |-> queue[k].schemaType, removed |-> queue[k].removed]]

Enqueued(queue, after, n) ==
  [k \in DOMAIN after |->
     IF k <= Len(queue) THEN queue[k]
     ELSE [schemaType |-> after[k].schemaType, removed |-> after[k].removed, save |-> n]]

\* this.$locals.subRefUpdateAfterSave.map((c) => c()): every remover of the
\* queue is invoked, in batch b
Invoked(queue, b) ==
  [k \in DOMAIN queue |->
     [schemaType |-> queue[k].schemaType, removed |-> queue[k].removed,
      save |-> queue[k].save, batch |-> b, status |-> "running"]]

CallsOf(i, b) == {k \in DOMAIN i.calls : i.calls[k].batch = b}

\* the hook run b awaits its Promise.all
Awaiting(i) == {b \in DOMAIN i.batches : i.batches[b] = "running"}

\* document.save() on the instance: the validators of the array path, then
\* the commit, then the post-save hook up to its await
SaveBody(newValues) ==
  LET d == inst.doc
      n == Len(inst.outcome) + 1
      oldValues == store[d].arr
  IN \E v \in {validate(store, d,
                        Lookup(validators, <<ModelOf(d)>> \o ArrayPathOf(ModelOf(d))),
                        oldValues, newValues,
                        Validation(store, Closures(inst.queue), newValues))} :
     \E queue \in {Enqueued(inst.queue, v.queue, n)} :
     /\ n <= MaxSaves
     /\ last' = Called("save", d, FALSE, v.err, store, v.arr, store[d].del,
                       oldValues \ newValues)
     /\ store' = IF v.err = NoError THEN [v.store EXCEPT ![d].arr = newValues]
                 ELSE v.store
     /\ inst' = IF v.err # NoError
                THEN [inst EXCEPT !.queue = queue, !.outcome = Append(@, "aborted")]
                ELSE IF queue = <<>>
                     THEN [inst EXCEPT !.outcome = Append(@, "committed")]
                     ELSE [inst EXCEPT !.queue = queue,
                                       !.outcome = Append(@, "committed"),
                                       !.updated = "false",
                                       !.batches = Append(@, "running"),
                                       !.calls = @ \o Invoked(queue, Len(inst.batches) + 1)]
     /\ UNCHANGED <<refs, validators, schemaTypes>>

\* the client awaited its last save(): no hook run awaits its Promise.all
SaveNext(newValues) ==
  /\ Awaiting(inst) = {}
  /\ SaveBody(newValues)

\* the client calls save() whether or not the save() before has returned
SaveAgain(newValues) ==
  /\ inst.doc # Null
  /\ SaveBody(newValues)

\* one invoked remover runs to its end
CallRun(k) ==
  /\ inst.calls[k].status = "running"
  /\ LET t == inst.calls[k]
         r == onDeleteConditions(store, t.schemaType, Decl(t.schemaType).modelName,
                                 Decl(t.schemaType).path, t.removed,
                                 BoundRefValue(t.schemaType, store[inst.doc]), HardDelete)
     IN /\ store' = r.store
        /\ inst' = [inst EXCEPT !.calls[k].status = IF r.err = NoError THEN "ok" ELSE "failed"]
  /\ UNCHANGED <<refs, validators, schemaTypes, last>>

\* the Promise.all of hook run b resolved: the hook deletes the queue, calls
\* the resolver and sets subRefUpdatedAfterSave
HookResolve(b) ==
  /\ inst.batches[b] = "running"
  /\ \A k \in CallsOf(inst, b) : inst.calls[k].status = "ok"
  /\ inst' = [inst EXCEPT !.batches[b] = "resolved", !.queue = <<>>, !.updated = "true",
                          !.futs = Settle(@, "resolved")]
  /\ UNCHANGED <<refs, validators, schemaTypes, store, last>>

\* a faulty hook: the rejection cancels the removers that are still running
HookReject_cancel(b) ==
  /\ inst.batches[b] = "running"
  /\ \E k \in CallsOf(inst, b) : inst.calls[k].status = "failed"
  /\ inst' = [inst EXCEPT !.batches[b] = "rejected", !.queue = <<>>, !.updated = "true",
                          !.futs = Settle(@, "rejected"),
                          !.calls = [k \in DOMAIN @ |->
                                       IF @[k].batch = b /\ @[k].status = "running"
                                       THEN [@[k] EXCEPT !.status = "cancelled"]
                                       ELSE @[k]]]
  /\ last' = [last EXCEPT !.err = SubRefConstraintError]
  /\ UNCHANGED <<refs, validators, schemaTypes, store>>

\* the Promise.all of hook run b rejected with the first failure: the hook
\* deletes the queue, calls the rejecter, sets subRefUpdatedAfterSave and
\* save() fails
HookReject(b) ==
  /\ inst.batches[b] = "running"
  /\ \E k \in CallsOf(inst, b) : inst.calls[k].status = "failed"
  /\ inst' = [inst EXCEPT !.batches[b] = "rejected", !.queue = <<>>, !.updated = "true",
                          !.futs = Settle(@, "rejected")]
  /\ last' = [last EXCEPT !.err = SubRefConstraintError]
  /\ UNCHANGED <<refs, validators, schemaTypes, store>>

\* the stores the instance can be loaded from: the person with both contacts,
\* a message and a reply that point at one of them, and a note or none
ReuseStores ==
  { [d \in ReuseDocIds |->
       CASE d = "p1" -> p [] d = "m1" -> m [] d = "r1" -> r [] OTHER -> n] :
      p \in NewDocs("p1", FALSE),
      m \in {x \in NewDocs("m1", FALSE) : x.ref # Null},
      r \in {x \in NewDocs("r1", FALSE) : x.ref # Null},
      n \in {Absent("n1")} \cup {x \in NewDocs("n1", FALSE) : x.ref = ElemsOf("m1")} }

InitInst ==
  /\ refs = plugins(EmptyRegistry, ReuseModels).refs
  /\ validators = plugins(EmptyRegistry, ReuseModels).validators
  /\ schemaTypes \in { t \in [AllFields -> Policies] :
                         /\ NoBound(t)
                         /\ t["Note.about"].required /\ ~t["Note.about"].cascade
                         /\ t["Tag.of"] = t["Note.about"] }
  /\ store \in ReuseStores
  /\ inst = Loaded
  /\ last = Called("init", Null, FALSE, NoError, store, {}, FALSE, {})

\* saves of one instance, each awaited before the next
NextInst ==
  \/ \E newValues \in SUBSET ElemsOf("p1") : SaveNext(newValues)
  \/ \E k \in DOMAIN inst.calls : CallRun(k)
  \/ \E b \in DOMAIN inst.batches : HookResolve(b)
  \/ \E b \in DOMAIN inst.batches : HookReject(b)
  \/ subRefsUpdates

SpecInst == InitInst /\ [][NextInst]_vars

\* saves of one instance, awaited or not
NextOverlap ==
  \/ \E newValues \in SUBSET ElemsOf("p1") : SaveAgain(newValues)
  \/ \E k \in DOMAIN inst.calls : CallRun(k)
  \/ \E b \in DOMAIN inst.batches : HookResolve(b)
  \/ \E b \in DOMAIN inst.batches : HookReject(b)
  \/ subRefsUpdates

SpecOverlap == InitInst /\ [][NextOverlap]_vars

\* --------------------------------------- a save in two steps, not awaited

\* the instance with the array of the save() that has validated and not yet
\* committed (saving, <<>> when none), the removers ever appended to the
\* queue (made) and the fields whose remover ran in the last validation
LoadedIdle ==
  [doc |-> "p1", queue |-> <<>>, calls |-> <<>>, batches |-> <<>>, outcome |-> <<>>,
   updated |-> "undefined", futs |-> <<>>, saving |-> <<>>, made |-> {}, checked |-> {}]

\* the removers of a queue, each named by its save() and its validator
TasksOf(queue) == {<<queue[k].save, queue[k].schemaType>> : k \in DOMAIN queue}

\* document.save() up to the end of validation: the validators of the array
\* path have run, the removers are queued, nothing is written yet
SaveValidate(newValues) ==
  LET d == inst.doc
      n == Len(inst.outcome) + 1
      oldValues == store[d].arr
  IN \E v \in {validate(store, d,
                        Lookup(validators, <<ModelOf(d)>> \o ArrayPathOf(ModelOf(d))),
                        oldValues, newValues,
                        Validation(store, Closures(inst.queue), newValues))} :
     \E queue \in {Enqueued(inst.queue, v.queue, n)} :
     /\ inst.saving = <<>>
     /\ n <= MaxSaves
     /\ last' = Called("save", d, FALSE, v.err, store, v.arr, store[d].del,
                       oldValues \ newValues)
     /\ store' = v.store
     /\ inst' = IF v.err # NoError
                THEN [inst EXCEPT !.queue = queue, !.made = @ \cup TasksOf(queue),
                                  !.checked = v.ran,
                                  !.outcome = Append(@, "aborted")]
                ELSE [inst EXCEPT !.queue = queue, !.made = @ \cup TasksOf(queue),
                                  !.checked = v.ran,
                                  !.saving = <<newValues>>]
     /\ UNCHANGED <<refs, validators, schemaTypes>>

\* the validated save() writes the document, then its post-save hook runs up
\* to its await: it starts a batch only if the queue is there
SaveCommit ==
  /\ inst.saving # <<>>
  /\ store' = [store EXCEPT ![inst.doc].arr = inst.saving[1]]
  /\ inst' = IF inst.queue = <<>>
             THEN [inst EXCEPT !.saving = <<>>, !.outcome = Append(@, "committed")]
             ELSE [inst EXCEPT !.saving = <<>>, !.outcome = Append(@, "committed"),
                               !.updated = "false",
                               !.batches = Append(@, "running"),
                               !.calls = @ \o Invoked(inst.queue, Len(inst.batches) + 1)]
  /\ UNCHANGED <<refs, validators, schemaTypes, last>>

InitSplit ==
  /\ refs = plugins(EmptyRegistry, ReuseModels).refs
  /\ validators = plugins(EmptyRegistry, ReuseModels).validators
  /\ schemaTypes \in { t \in [AllFields -> Policies] :
                         /\ NoBound(t)
                         /\ t["Note.about"].required /\ ~t["Note.about"].cascade
                         /\ t["Tag.of"] = t["Note.about"] }
  /\ store \in ReuseStores
  /\ inst = LoadedIdle
  /\ last = Called("init", Null, FALSE, NoError, store, {}, FALSE, {})

\* saves of one instance in two steps, awaited or not
NextSplit ==
  \/ \E newValues \in SUBSET ElemsOf("p1") : SaveValidate(newValues)
  \/ SaveCommit
  \/ \E k \in DOMAIN inst.calls : CallRun(k)
  \/ \E b \in DOMAIN inst.batches : HookResolve(b)
  \/ \E b \in DOMAIN inst.batches : HookReject(b)

SpecSplit == InitSplit /\ [][NextSplit]_vars

\* ------------------------------------------------- the removed values

\* longest array of the study of deletedValues
MaxArray == 2

\* elements of an array of sub-documents: an _id and the rest of the content
SubDocs == {[id |-> i, body |-> b] : i \in {"c0", "c1", "c2"}, b \in {"old", "new"}}

\* elements of an array of primitives: no _id, the value itself
Primitives == {[id |-> Null, body |-> b] : b \in {"x", "y", "z"}}

ArraysOf(E) == UNION {[1..n -> E] : n \in 0..MaxArray}

\* a faulty comparison: sub-documents are compared as wholes
equals_whole(o, n) == o = n

\* o._id ? (n) => o._id.equals(n._id) : (n) => (o.equals ? o.equals(n) : o === n)
equals(o, n) == IF o.id # Null THEN o.id = n.id ELSE o.body = n.body

\* newValues.some(...)
some(newValues, o) == \E k \in DOMAIN newValues : equals(o, newValues[k])

\* oldValues.filter((o) => !newValues.some(...))
RECURSIVE filter(_, _)
filter(oldValues, newValues) ==
  IF oldValues = <<>> THEN <<>>
  ELSE IF some(newValues, Head(oldValues)) THEN filter(Tail(oldValues), newValues)
       ELSE <<Head(oldValues)>> \o filter(Tail(oldValues), newValues)

\* deletedValues.map((d) => d._id || d)
referencedValues(deletedValues) ==
  [k \in DOMAIN deletedValues |->
     IF deletedValues[k].id # Null THEN deletedValues[k].id ELSE deletedValues[k].body]

Range(seq) == {seq[k] : k \in DOMAIN seq}

\* the validator computes deletedValues and hands their ids or values on
Detect ==
  /\ inst.doc = Null
  /\ inst' = [inst EXCEPT !.doc = "p1"]
  /\ last' = Called("deletedValues", "p1", FALSE, NoError, store, {}, FALSE,
                    Range(referencedValues(filter(inst.old, inst.new))))
  /\ UNCHANGED <<refs, validators, schemaTypes, store>>

InitDetect ==
  /\ refs = plugins(EmptyRegistry, ModelNames).refs
  /\ validators = plugins(EmptyRegistry, ModelNames).validators
  /\ schemaTypes \in { t \in [Fields -> Policies] :
                         ~t["Message.contact"].required /\ t["Note.about"] = t["Message.contact"]
                         /\ NoBound(t) /\ ~t["Note.about"].cascade }
  /\ store = [d \in DocIds |-> Absent(d)]
  /\ inst \in {[doc |-> Null, old |-> o, new |-> n] :
                 o \in ArraysOf(SubDocs), n \in ArraysOf(SubDocs)}
            \cup {[doc |-> Null, old |-> o, new |-> n] :
                    o \in ArraysOf(Primitives), n \in ArraysOf(Primitives)}
  /\ last = Called("init", Null, FALSE, NoError, store, {}, FALSE, {})

NextDetect == Detect

SpecDetect == InitDetect /\ [][NextDetect]_vars

\* --------------------------------------------------- the update query

\* the set-null of a reference at a path of Tree builds its update query
BuildUpdate ==
  /\ inst.doc = Null
  /\ inst' = [inst EXCEPT !.doc = "Tree",
                          !.update = getUpdateQueryObjectFor("Tree", inst.path, inst.values)]
  /\ UNCHANGED <<refs, validators, schemaTypes, store, last>>

InitUpdate ==
  /\ refs = plugins(EmptyRegistry, ModelNames).refs
  /\ validators = plugins(EmptyRegistry, ModelNames).validators
  /\ schemaTypes = [f \in Fields |-> [required |-> FALSE, cascade |-> FALSE, boundTo |-> NoPath]]
  /\ store = [d \in DocIds |-> Absent(d)]
  /\ inst \in {[doc |-> Null, path |-> p, values |-> v, update |-> <<>>] :
                 p \in TreePaths, v \in {{"c0"}, {"c0", "c1"}}}
  /\ last = Called("init", Null, FALSE, NoError, store, {}, FALSE, {})

NextUpdate == BuildUpdate

SpecUpdate == InitUpdate /\ [][NextUpdate]_vars

\* ------------------------------------------------ the cascade, step by step

\* two models that reference each other's arrays: a Player holds a seat of a
\* Team (Player.seat -> Team.seats), a Team has a role of a Player as its
\* lead (Team.lead -> Player.roles)
LoopModels == <<"Team", "Player">>

LoopFields == {"Player.seat", "Team.lead"}

LoopDocIds == {"t1", "y1", "y2"}

\* the pending hook runs the study keeps: the innermost MaxDepth. There are
\* more only when a document is being removed a second time while its first
\* removal is pending (three documents make at most three runs otherwise)
MaxDepth == 5

\* the values a document of the two models can be stored with
LoopDocs(d) ==
  { [here |-> TRUE, arr |-> ElemsOf(d), ref |-> r, del |-> FALSE, owner |-> Null] :
      r \in {Null} \cup (IF ModelOf(d) = "Team" THEN ElemsOf("y1") \cup ElemsOf("y2")
                         ELSE ElemsOf("t1")) }

\* one run of the pre hook of a removal: the document instance it runs on,
\* the descriptors of refs[modelName] onDelete has still to go through, the
\* documents the cascade of the current descriptor found and has not called
\* yet, and the first error
Frame(d, document) ==
  [doc |-> d, document |-> document, entries |-> Lookup(refs, <<ModelOf(d)>>),
   found |-> {}, err |-> NoError]

Top == inst.stack[Len(inst.stack)]

\* the stack with its top frame replaced
WithTop(frame) == [inst.stack EXCEPT ![Len(inst.stack)] = frame]

\* document.deleteOne() or document.softDelete(v) by the client: the pre hook
\* of the document starts
Call(d, opts) ==
  /\ inst.op = "none"
  /\ store[d].here
  /\ inst' = [inst EXCEPT !.op = IF opts.softDelete THEN "softDelete" ELSE "deleteOne",
                          !.opts = opts,
                          !.stack = <<Frame(d, store[d])>>]
  /\ UNCHANGED <<refs, validators, schemaTypes, store, last>>

\* one turn of the loop of onDelete in the hook run on top: onDeleteConditions
\* for the next descriptor. Block fails the run when a document is found,
\* set-null runs its bulk update, cascade finds the documents to remove
Enforce ==
  /\ inst.stack # <<>>
  /\ Top.err = NoError
  /\ Top.found = {}
  /\ Top.entries # <<>>
  /\ LET e == Head(Top.entries)
         f == e.schemaType
         pathSubRef == Tail(Decl(f).subRef)
         query == getFindQueryObjectFor(e.modelName, e.path,
                                        getReferencedValues(pathSubRef, Top.document),
                                        BoundRefValue(f, Top.document))
         documents == Find(store, e.modelName, query)
     IN IF <<ModelOf(Top.doc)>> \o pathSubRef \notin ArrayPaths
        THEN /\ inst' = [inst EXCEPT !.stack = WithTop([Top EXCEPT !.err = TypeError])]
             /\ store' = store
        ELSE IF schemaTypes[f].required /\ schemaTypes[f].cascade
        THEN /\ inst' = [inst EXCEPT !.stack =
                           WithTop([Top EXCEPT !.entries = Tail(@),
                                               !.found = {<<x, store[x]>> : x \in documents}])]
             /\ store' = store
        ELSE IF schemaTypes[f].required
        THEN /\ inst' = [inst EXCEPT !.stack =
                           WithTop(IF (~inst.opts.softDelete \/ inst.opts.deleted)
                                      /\ documents # {}
                                   THEN [Top EXCEPT !.err = SubRefConstraintError]
                                   ELSE [Top EXCEPT !.entries = Tail(@)])]
             /\ store' = store
        ELSE /\ inst' = [inst EXCEPT !.stack = WithTop([Top EXCEPT !.entries = Tail(@)])]
             /\ store' = IF inst.opts.softDelete THEN store
                         ELSE updateMany(store, e.modelName, query,
                                         getUpdateQueryObjectFor(e.modelName, e.path,
                                                                 getReferencedValues(pathSubRef,
                                                                                     Top.document)))
  /\ UNCHANGED <<refs, validators, schemaTypes, last>>

\* the innermost MaxDepth runs of a stack
Innermost(stack) == IF Len(stack) > MaxDepth THEN Tail(stack) ELSE stack

\* documents.map((doc) => doc.deleteOne() | doc.softDelete(_deleted)): the
\* removal of one found document starts, and with it the pre hook of that
\* document, while the hook run that found it awaits. The outermost run is
\* no longer kept (forgot) once more than MaxDepth are pending
Descend ==
  /\ inst.stack # <<>>
  /\ \E x \in Top.found :
       inst' = [inst EXCEPT !.stack = Innermost(Append(WithTop([Top EXCEPT !.found = @ \ {x}]),
                                                       Frame(x[1], x[2]))),
                            !.forgot = @ \/ Len(inst.stack) = MaxDepth]
  /\ UNCHANGED <<refs, validators, schemaTypes, store, last>>

\* the hook run on top has ended: it passed and its document is removed (or
\* saved with the soft-deleted flag), or it failed and nothing is written;
\* the run that awaits it goes on, with the first error of its Promise.all
Return ==
  /\ inst.stack # <<>>
  /\ Len(inst.stack) = 1 => ~inst.forgot
  /\ Top.found = {}
  /\ Top.err # NoError \/ Top.entries = <<>>
  /\ store' = IF Top.err # NoError THEN store
              ELSE IF inst.opts.softDelete
                   THEN [store EXCEPT ![Top.doc].del = IF store[Top.doc].here
                                                       THEN inst.opts.deleted ELSE @]
                   ELSE [store EXCEPT ![Top.doc] = Absent(Top.doc)]
  /\ inst' = IF Len(inst.stack) = 1
             THEN [inst EXCEPT !.stack = <<>>,
                               !.result = IF Top.err = NoError THEN "ok" ELSE Top.err]
             ELSE [inst EXCEPT !.stack =
                     [k \in 1..(Len(inst.stack) - 1) |->
                        IF k = Len(inst.stack) - 1 /\ inst.stack[k].err = NoError
                        THEN [inst.stack[k] EXCEPT !.err = Top.err]
                        ELSE inst.stack[k]]]
  /\ UNCHANGED <<refs, validators, schemaTypes, last>>

InitCascade ==
  /\ refs = plugins(EmptyRegistry, LoopModels).refs
  /\ validators = plugins(EmptyRegistry, LoopModels).validators
  /\ schemaTypes \in { t \in [LoopFields -> Policies] : NoBound(t) }
  /\ store \in { s \in [LoopDocIds -> UNION {LoopDocs(d) \cup {Absent(d)} : d \in LoopDocIds}] :
                   \A d \in LoopDocIds : s[d] \in LoopDocs(d) \cup {Absent(d)} }
  /\ inst = [op |-> "none", opts |-> HardDelete, stack |-> <<>>, forgot |-> FALSE,
             result |-> "none"]
  /\ last = Called("init", Null, FALSE, NoError, <<>>, {}, FALSE, {})

NextCascade ==
  \/ \E d \in LoopDocIds : \E opts \in {HardDelete, SoftDeleteOptions(TRUE),
                                        SoftDeleteOptions(FALSE)} : Call(d, opts)
  \/ Enforce
  \/ Descend
  \/ Return

\* every hook run that can go on does go on
SpecCascade == InitCascade /\ [][NextCascade]_vars /\ WF_vars(NextCascade)

\* ------------------------------------------- vocabulary of the properties

\* the declared references whose target array is an array of the model of d
References(d) == {f \in Fields : Head(Decl(f).subRef) = ModelOf(d)}

IsBlock(f) == schemaTypes[f].required /\ ~schemaTypes[f].cascade

IsCascade(f) == schemaTypes[f].required /\ schemaTypes[f].cascade

IsNotRequired(f) == ~schemaTypes[f].required

\* reference f has no bound value on the target document: it declares no
\* boundTo, or the target's bound field is empty
Unbound(f, document) == schemaTypes[f].boundTo = NoPath \/ document.owner = Null

\* a referencing document holds one of the values in its reference field
Holds(document, f, values) ==
  IF Decl(f).constructor = "SchemaArray" THEN document.ref \cap values # {}
  ELSE document.ref \in values

\* the stored documents of the referencing model of f that hold one of the values
Referencing(s, f, values) ==
  {x \in DocIds : ModelOf(x) = Decl(f).modelName /\ s[x].here /\ Holds(s[x], f, values)}

\* the documents that reference an element of d's array through a cascade reference
Dependents(s, d) ==
  UNION {Referencing(s, f, s[d].arr) : f \in {g \in References(d) : IsCascade(g)}}

RECURSIVE CascadedFrom(_, _, _)
CascadedFrom(s, D, n) ==
  IF n = 0 THEN D
  ELSE CascadedFrom(s, D \cup UNION {Dependents(s, x) : x \in D}, n - 1)

\* d and every document that depends on d through a chain of cascade references
Cascaded(s, d) == CascadedFrom(s, {d}, Cardinality(DocIds))

\* a referencing document after the values are unset in its reference field
Unset(document, f, values) ==
  [document EXCEPT !.ref = IF Decl(f).constructor = "SchemaArray" THEN @ \ values
                           ELSE IF @ \in values THEN Null ELSE @]

\* a future returned by subRefsUpdates() on the saved instance has resolved
Resolved == \E k \in DOMAIN inst.futs : inst.futs[k] = "resolved"

\* ------------------------------------------------------------------- C1

C1_Case(f) ==
  /\ last.op = "deleteOne"
  /\ f \in References(last.doc)
  /\ IsBlock(f)
  /\ Referencing(last.pre, f, last.pre[last.doc].arr) # {}

C1_Blocked == last.err = SubRefConstraintError /\ store = last.pre

\* C1 as stated: under a required, non-cascade reference, deleteOne() / remove()
\* on a target with at least one referencing document fails with
\* SubRefConstraintError and leaves the target and every document unchanged
C1_AsStated == \A f \in Fields : C1_Case(f) => C1_Blocked

\* C1: under a required, non-cascade reference that has no bound value on the
\* target, deleteOne() / remove() on a target with at least one referencing
\* document fails with SubRefConstraintError, the target is still in the store
\* and every referencing document is unchanged
C1_BlockOnHardDelete ==
  \A f \in Fields : C1_Case(f) /\ Unbound(f, last.pre[last.doc]) => C1_Blocked

C1_Witness ==
  /\ C1_Case("Message.contact")
  /\ Unbound("Message.contact", last.pre[last.doc])
  /\ C1_Blocked
  /\ store[last.doc].here

\* ------------------------------------------------------------------- C2

C2_Case(f) ==
  /\ last.op = "deleteOne"
  /\ last.err = NoError
  /\ f \in References(last.doc)
  /\ IsCascade(f)

C2_Gone(f) ==
  /\ \A x \in Cascaded(last.pre, last.doc) : ~store[x].here
  /\ Referencing(store, f, last.pre[last.doc].arr) = {}

\* C2 as stated: after a successful deleteOne() on a target of a required,
\* cascade reference the target is gone and so is every document that
\* referenced an element of its array, through every chain of cascade references
C2_AsStated == \A f \in Fields : C2_Case(f) => C2_Gone(f)

\* C2: after a successful deleteOne() on a target of a required, cascade
\* reference that has no bound value on the target, the target is gone and so
\* is every document that referenced an element of its array, through every
\* chain of cascade references, for any number of referencing documents
C2_CascadeOnHardDelete ==
  \A f \in Fields : C2_Case(f) /\ Unbound(f, last.pre[last.doc]) => C2_Gone(f)

C2_Witness ==
  /\ C2_Case("Message.contact")
  /\ Unbound("Message.contact", last.pre[last.doc])
  /\ Cascaded(last.pre, last.doc) = DocIds
  /\ C2_Gone("Message.contact")

\* ------------------------------------------------------------------- C3

C3_Case(f) ==
  /\ last.op = "deleteOne"
  /\ f \in References(last.doc)
  /\ IsNotRequired(f)

\* the store after the target is removed and its values are unset in every
\* document of the referencing model
C3_Expected(f) ==
  [x \in DocIds |->
     IF x = last.doc THEN Absent(x)
     ELSE IF ModelOf(x) = Decl(f).modelName /\ last.pre[x].here
          THEN Unset(last.pre[x], f, last.pre[last.doc].arr)
          ELSE last.pre[x]]

\* C3 as stated: under a not-required reference deleteOne() removes the target
\* and every referencing document stays, a scalar reference to an element of
\* the target set to null, an array reference without the removed values and
\* with its other elements unchanged
C3_AsStated ==
  \A f \in Fields : C3_Case(f) => last.err = NoError /\ store = C3_Expected(f)

\* C3: under a not-required reference that has no bound value on the target,
\* deleteOne() removes the target and every referencing document stays, a
\* scalar reference to an element of the target set to null, an array
\* reference without the removed values and with its other elements unchanged
C3_SetNullOnHardDelete ==
  \A f \in Fields :
    C3_Case(f) /\ Unbound(f, last.pre[last.doc])
      => last.err = NoError /\ store = C3_Expected(f)

C3_Witness ==
  /\ C3_Case("Note.about")
  /\ last.doc = "m1"
  /\ last.pre["n1"].here
  /\ last.pre["n1"].ref = {"a1", "a2"}
  /\ store["n1"].here
  /\ store["n1"].ref = {"a2"}
  /\ ~store["m1"].here

\* ------------------------------------------------------------------- C4

C4_Case(f) ==
  /\ last.op = "save"
  /\ f \in References(last.doc)
  /\ IsBlock(f)
  /\ Referencing(last.pre, f, last.removed) # {}

C4_RolledBack ==
  /\ last.err = ValidationError
  /\ store = last.pre
  /\ last.arr = last.pre[last.doc].arr

\* C4 as stated: a save() that removes an element a required, non-cascade
\* referencing document still points at fails with a validation failure, the
\* store is unchanged and the in-memory array holds its prior value again
C4_AsStated == \A f \in Fields : C4_Case(f) => C4_RolledBack

\* C4: a save() that removes an element a required, non-cascade referencing
\* document still points at, the reference having no bound value on the
\* target, fails with a validation failure, the store is unchanged and the
\* in-memory array holds its prior value again
C4_SaveBlockRollback ==
  \A f \in Fields : C4_Case(f) /\ Unbound(f, last.pre[last.doc]) => C4_RolledBack

C4_Witness ==
  /\ C4_Case("Message.contact")
  /\ Unbound("Message.contact", last.pre[last.doc])
  /\ last.removed = {"c0"}
  /\ C4_RolledBack

\* ------------------------------------------------------------------- C5

C5_Case(f) ==
  /\ last.op = "save"
  /\ f \in References(last.doc)
  /\ IsCascade(f)
  /\ last.removed # {}
  /\ Resolved

C5_Selective(f) ==
  \A x \in DocIds :
    ModelOf(x) = Decl(f).modelName =>
      IF x \in Referencing(last.pre, f, last.removed) THEN ~store[x].here
      ELSE store[x] = last.pre[x]

C6_Case(f) ==
  /\ last.op = "save"
  /\ f \in References(last.doc)
  /\ IsNotRequired(f)
  /\ last.removed # {}

C6_Unset(f) ==
  /\ last.err = NoError
  /\ Resolved =>
       \A x \in Referencing(last.pre, f, last.removed) :
         store[x].here /\ store[x].ref = Null

\* C6 as stated: a save() that removes an element under a not-required
\* reference succeeds, and once a future of subRefsUpdates() has resolved every
\* referencing document that pointed at a removed element still exists and has
\* its reference unset
C6_AsStated == \A f \in Fields : C6_Case(f) => C6_Unset(f)

\* C6: a save() that removes an element under a not-required reference that
\* has no bound value on the target succeeds, and once a future of
\* subRefsUpdates() has resolved every referencing document that pointed at a
\* removed element still exists and has its reference unset
C6_SaveSetNull ==
  \A f \in Fields : C6_Case(f) /\ Unbound(f, last.pre[last.doc]) => C6_Unset(f)

C6_Witness ==
  /\ C6_Case("Message.contact")
  /\ Unbound("Message.contact", last.pre[last.doc])
  /\ Resolved
  /\ last.pre["m1"].ref \in last.removed
  /\ store["m1"].here
  /\ store["m1"].ref = Null

\* ------------------------------------------------------------------- C7

C7_Case(f) ==
  /\ last.op = "softDelete"
  /\ last.flag
  /\ f \in References(last.doc)
  /\ IsBlock(f)
  /\ Unbound(f, last.pre[last.doc])
  /\ Referencing(last.pre, f, last.pre[last.doc].arr) # {}

\* C7: softDelete(true) on a target of a required, non-cascade reference (with
\* no bound value) with at least one referencing document fails with
\* SubRefConstraintError, no document is soft-deleted, and the soft-deleted
\* flag of the target, stored and on the caller's document, is as it was
\* before the call, whatever it was
C7_SoftDeleteBlockRollback ==
  \A f \in Fields :
    C7_Case(f) =>
      /\ last.err = SubRefConstraintError
      /\ store = last.pre
      /\ last.del = last.pre[last.doc].del

\* ------------------------------------------------------------------- C8

C8_Case(f) ==
  /\ last.op = "softDelete"
  /\ last.err = NoError
  /\ f \in References(last.doc)
  /\ IsCascade(f)

C8_Propagated(f) ==
  /\ store[last.doc].del = last.flag
  /\ \A x \in Referencing(last.pre, f, last.pre[last.doc].arr) : store[x].del = last.flag
  /\ \A x \in DocIds : store[x].here = last.pre[x].here

\* C8 as stated: after softDelete(v) on a target of a required, cascade
\* reference, the target and every referencing document that points at an
\* element of its array have the flag v, and no document is physically removed
C8_AsStated == \A f \in Fields : C8_Case(f) => C8_Propagated(f)

\* C8: after softDelete(v) on a target of a required, cascade reference that
\* has no bound value on the target, the target and every referencing document
\* that points at an element of its array have the flag v, and no document is
\* physically removed
C8_SoftDeleteCascade ==
  \A f \in Fields : C8_Case(f) /\ Unbound(f, last.pre[last.doc]) => C8_Propagated(f)

C8_Witness ==
  /\ C8_Case("Message.contact")
  /\ Unbound("Message.contact", last.pre[last.doc])
  /\ last.flag
  /\ {"m1", "m2"} \subseteq Referencing(last.pre, "Message.contact", last.pre[last.doc].arr)
  /\ ~last.pre["m1"].del
  /\ C8_Propagated("Message.contact")

\* ------------------------------------------------------------------- C9

\* softDelete(true) then softDelete(false) on d from store s
RoundTrip(s, d) ==
  LET r1 == preSoftDelete(s, d, TRUE)
      r2 == preSoftDelete(r1.store, d, FALSE)
  IN [store |-> r2.store, ok |-> r1.err = NoError /\ r2.err = NoError]

C9_Case(d, f) ==
  /\ store[d].here
  /\ ~store[d].del
  /\ f \in References(d)
  /\ IsCascade(f)
  /\ RoundTrip(store, d).ok

\* C9: under a required, cascade reference softDelete(true) followed by
\* softDelete(false) on a target that is not soft-deleted returns the target
\* and every cascaded referencing document to the soft-deleted flag it had
\* before the first call, whatever the flags of the referencing documents were
C9_SoftDeleteRoundTrip ==
  \A d \in DocIds : \A f \in Fields :
    C9_Case(d, f) =>
      \A x \in {d} \cup Referencing(store, f, store[d].arr) :
        RoundTrip(store, d).store[x].del = store[x].del

\* ------------------------------------------------------------------ C10

C10_Case(f) ==
  /\ last.op = "softDelete"
  /\ last.flag
  /\ f \in References(last.doc)
  /\ IsNotRequired(f)

\* C10: softDelete(true) on a target of a not-required reference succeeds, sets
\* the soft-deleted flag of the target and changes no other document: no
\* reference is nulled or pulled and no other flag is set
C10_SoftDeleteNotRequired ==
  \A f \in Fields :
    C10_Case(f) =>
      /\ last.err = NoError
      /\ store = [last.pre EXCEPT ![last.doc].del = TRUE]

C10_Witness ==
  /\ C10_Case("Message.contact")
  /\ Referencing(last.pre, "Message.contact", last.pre[last.doc].arr) # {}
  /\ store[last.doc].del
  /\ \A x \in DocIds \ {last.doc} : store[x] = last.pre[x]

\* ------------------------------------------------------------------ C11

\* a step that is a call of subRefsUpdates() on an instance whose batch has finished
C11_Call ==
  /\ inst.batch = "finished"
  /\ Len(inst'.futs) = Len(inst.futs) + 1

\* C11: a call of subRefsUpdates() on a document instance whose deferred batch
\* has finished returns a future that is resolved at once, starts no deferred
\* task again and changes no document, for every repeated call
C11_Idempotent ==
  [][C11_Call =>
       /\ inst'.futs[Len(inst'.futs)] = "resolved"
       /\ inst'.tasks = inst.tasks
       /\ inst'.queue = inst.queue
       /\ store' = store]_vars

\* the batch failed, its waiter was rejected, and the calls made after that
\* were resolved at once
C11_Witness ==
  /\ inst.batch = "finished"
  /\ Len(inst.futs) = MaxWaiters
  /\ inst.futs[1] = "rejected"
  /\ \A k \in 2..Len(inst.futs) : inst.futs[k] = "resolved"
  /\ \A k \in DOMAIN inst.tasks : inst.tasks[k] # "running"

\* ------------------------------------------------------------------ C12

\* C12: on a document instance that has no deferred task enqueued and never
\* started a batch, every future subRefsUpdates() returned is resolved
C12_NothingPendingResolves ==
  (inst.doc # Null /\ inst.queue = <<>> /\ inst.batch = "none")
    => \A k \in DOMAIN inst.futs : inst.futs[k] = "resolved"

\* ------------------------------------------------------------------ C13

\* the futures of the callers waiting when the batch finishes
C13_Notified ==
  (inst.batch = "running" /\ inst'.batch = "finished")
    => /\ DOMAIN inst'.futs = DOMAIN inst.futs
       /\ \A k \in DOMAIN inst.futs :
            inst'.futs[k] = IF \A t \in DOMAIN inst.tasks : inst.tasks[t] = "ok"
                            THEN "resolved" ELSE "rejected"

\* C13: the futures of the k callers of subRefsUpdates() during a batch in
\* flight stay pending until the batch finishes; when it finishes with every
\* task succeeded all k resolve, when a task failed all k reject, and none is
\* left pending afterwards
C13_FanOut ==
  /\ [](inst.batch = "running" => \A k \in DOMAIN inst.futs : inst.futs[k] = "pending")
  /\ [](inst.batch = "finished" => \A k \in DOMAIN inst.futs : inst.futs[k] # "pending")
  /\ [][C13_Notified]_vars

C13_Witness ==
  /\ inst.batch = "finished"
  /\ Len(inst.futs) = MaxWaiters
  /\ \A k \in DOMAIN inst.futs : inst.futs[k] = "rejected"

\* ------------------------------------------------------------------ C16

\* field f has a descriptor in the registry / a validator attached
InRegistry(f) ==
  \E key \in DOMAIN refs : \E i \in DOMAIN refs[key] : refs[key][i].schemaType = f

HasValidator(f) ==
  \E key \in DOMAIN validators : \E i \in DOMAIN validators[key] : validators[key][i] = f

\* C16: the registration of a model that declares a subRef whose target is not
\* an array fails with an error, and no descriptor of such a field is ever in
\* the registry and no validator is attached for it
C16_ConfigurationErrorsFailFast ==
  \A f \in AllFields :
    Decl(f).subRef \notin ArrayPaths =>
      /\ ~InRegistry(f)
      /\ ~HasValidator(f)
      /\ (last.op = "register" /\ last.doc = Decl(f).modelName) => last.err # NoError

\* ------------------------------------------------------------------ C17

Registered(modelName) == <<modelName>> \in DOMAIN refs

\* the positions of field f in the registry list of its root model
PositionsOf(f) ==
  {i \in DOMAIN Lookup(refs, getRootRef(Decl(f).subRef)) :
     Lookup(refs, getRootRef(Decl(f).subRef))[i].schemaType = f}

\* C17: after any registrations, the registry list of a root model holds one
\* descriptor for every field the registered models declare into that root,
\* and a deletion of a root document enforces every one of them: a required,
\* non-cascade one blocks it while a document references an element of the
\* root document's array
C17_RegistryComplete ==
  \A f \in AllFields :
    (Registered(Decl(f).modelName) /\ Decl(f).subRef \in ArrayPaths) =>
      /\ Cardinality(PositionsOf(f)) = 1
      /\ (/\ last.op = "deleteOne"
          /\ Head(Decl(f).subRef) = ModelOf(last.doc)
          /\ IsBlock(f)
          /\ Referencing(last.pre, f, last.pre[last.doc].arr) # {})
           => last.err = SubRefConstraintError /\ store = last.pre

\* ------------------------------------------------------------------ C15

\* C15: in every quiescent state reached by interleaved deletions of targets
\* and creations of referencing documents, every value a stored document
\* holds in a required reference field is an element of a stored array of the
\* root model
C15_NoDanglingRequired ==
  Quiescent =>
    \A f \in Fields : \A x \in DocIds :
      (schemaTypes[f].required /\ ModelOf(x) = Decl(f).modelName /\ store[x].here)
        => ValuesOf(x, store[x]) \subseteq Elements(store, Head(Decl(f).subRef))

\* ------------------------------------------------------------------ C14

\* hook run b fails in this step
C14_Fails(b) == inst.batches[b] = "running" /\ inst'.batches[b] = "rejected"

\* a failing hook run has a failed remover, save() fails with its error, every
\* waiting subRefsUpdates() future is rejected, and no remover is touched
C14_Rejects ==
  \A b \in DOMAIN inst.batches :
    C14_Fails(b) =>
      /\ \E k \in CallsOf(inst, b) : inst.calls[k].status = "failed"
      /\ last'.err = SubRefConstraintError
      /\ \A f \in DOMAIN inst.futs : inst.futs[f] = "pending" => inst'.futs[f] = "rejected"
      /\ inst'.calls = inst.calls

\* a started remover stays started until it ends, as ok or failed, and an
\* ended one stays as it ended
C14_RunsOn ==
  \A k \in DOMAIN inst.calls :
    /\ k \in DOMAIN inst'.calls
    /\ inst'.calls[k].status \in
         IF inst.calls[k].status = "running" THEN {"running", "ok", "failed"}
         ELSE {inst.calls[k].status}

\* C14: when a deferred task of a batch fails the batch fails with that task's
\* error (it never resolves), the error reaches the callers waiting on
\* subRefsUpdates(), and the started siblings are not cancelled: each keeps
\* running until it ends on its own
C14_DeferredBatchFailure ==
  /\ [](\A b \in DOMAIN inst.batches :
          inst.batches[b] = "resolved" =>
            \A k \in CallsOf(inst, b) : inst.calls[k].status = "ok")
  /\ [](\A k \in DOMAIN inst.calls : inst.calls[k].status = "running" => ENABLED CallRun(k))
  /\ [][C14_Rejects /\ C14_RunsOn]_vars

\* a batch has failed, a waiter was rejected, a sibling is still running
C14_Witness ==
  \E b \in DOMAIN inst.batches :
    /\ inst.batches[b] = "rejected"
    /\ \E k \in CallsOf(inst, b) : inst.calls[k].status = "running"
    /\ \E k \in CallsOf(inst, b) : inst.calls[k].status = "failed"
    /\ \E f \in DOMAIN inst.futs : inst.futs[f] = "rejected"

\* ------------------------------------------------------------------ C18

\* C18: a deferred task runs only after the commit of the save that enqueued
\* it: every invoked remover was made by a save() that committed, never by
\* one that was aborted
C18_OnlyAfterOwnCommit ==
  \A k \in DOMAIN inst.calls : inst.outcome[inst.calls[k].save] = "committed"

\* ------------------------------------------------------------------ C19

\* the batch of hook run b is in flight: its Promise.all is pending or one of
\* the removers it started is still running
C19_InFlight(b) ==
  \/ inst.batches[b] = "running"
  \/ \E k \in CallsOf(inst, b) : inst.calls[k].status = "running"

\* C19: at most one batch of deferred tasks is in flight for the instance
C19_OneBatchInFlight ==
  Cardinality({b \in DOMAIN inst.batches : C19_InFlight(b)}) <= 1

\* ------------------------------------------------------------------ C20

\* the remover a call invokes: the save() that made it and its validator
C20_Task(c) == <<c.save, c.schemaType>>

C21_Committed ==
  {t \in inst.made : t[1] \in DOMAIN inst.outcome /\ inst.outcome[t[1]] = "committed"}

C22_PathFields == {"Message.contact", "Reply.to"}

\* this step is the validation of a save()
C22_Validates ==
  /\ inst.saving = <<>>
  /\ \/ inst'.saving # <<>>
     \/ /\ Len(inst'.outcome) = Len(inst.outcome) + 1
        /\ inst'.outcome[Len(inst'.outcome)] = "aborted"

\* during the validation of a save that removes elements nothing is written,
\* a remover ran only for a reference that is required and not cascade, each
\* such reference was checked (when validation passed), and every other
\* reference has its remover queued by this save, not run
C22_DuringValidation ==
  C22_Validates =>
    /\ store' = store
    /\ \A f \in inst'.checked : IsBlock(f) /\ last'.removed # {}
    /\ (last'.removed # {} /\ last'.err = NoError) =>
         \A f \in C22_PathFields :
           IF IsBlock(f) THEN f \in inst'.checked
           ELSE /\ f \notin inst'.checked
                /\ <<Len(inst.outcome) + 1, f>> \in TasksOf(inst'.queue)

\* C22: only the block policy is enforced during validation: a required
\* non-cascade reference is checked before validation ends and the check
\* writes nothing; a cascade or not-required reference causes no read or write
\* of the referencing collection before the commit, its remover is queued
C22_OnlyBlockDuringValidation == [][C22_DuringValidation]_vars

\* a validation passed in which the block reference was checked while a stored
\* reply pointed elsewhere, and the cascade reference of a stored message that
\* points at the removed element was queued, the message still there
C22_Witness ==
  /\ inst.saving # <<>>
  /\ inst.checked = {"Reply.to"}
  /\ IsCascade("Message.contact")
  /\ \E k \in DOMAIN inst.queue :
       /\ inst.queue[k].schemaType = "Message.contact"
       /\ inst.queue[k].save = Len(inst.outcome) + 1
       /\ store["m1"].here /\ store["m1"].ref \in inst.queue[k].removed

\* ------------------------------------------------------------------ C23

\* this step is a save() of the instance that removes no element
C23_SavesNoRemoval ==
  /\ Len(inst'.outcome) = Len(inst.outcome) + 1
  /\ last'.removed = {}

\* C23: a save that removes nothing triggers no enforcement: validation
\* passes, no remover is queued, none is started, and no document other than
\* the saved one changes
C23_NoRemovalNoEnforcement ==
  [][C23_SavesNoRemoval =>
       /\ last'.err = NoError
       /\ inst'.queue = inst.queue
       /\ inst'.calls = inst.calls
       /\ \A x \in DOMAIN store : x # inst.doc => store'[x] = store[x]]_vars

\* ------------------------------------------------------------------ C24

\* what identifies an element: the id of a sub-document, the value of a scalar
C24_Key(e) == IF e \in SubDocs THEN e.id ELSE e.body

C24_Keys(seq) == {C24_Key(seq[k]) : k \in DOMAIN seq}

C25_Case(f) ==
  /\ last.op = "softDelete"
  /\ ~last.flag
  /\ f \in References(last.doc)
  /\ IsBlock(f)

\* C25: softDelete(false) on a target of a required, non-cascade reference
\* never fails, however many documents reference it: the target is restored
\* and no other document changes
C25_BlockSkippedOnRestore ==
  \A f \in Fields :
    C25_Case(f) =>
      /\ last.err = NoError
      /\ ~store[last.doc].del
      /\ ~last.del
      /\ \A x \in DocIds : x # last.doc => store[x] = last.pre[x]

\* a soft-deleted person that two messages point at was restored
C25_Witness ==
  /\ C25_Case("Message.contact")
  /\ last.pre[last.doc].del
  /\ {"m1", "m2"} \subseteq Referencing(last.pre, "Message.contact", last.pre[last.doc].arr)
  /\ ~store[last.doc].del

\* ------------------------------------------------------------------ C26

\* deleteOne() was called on a target of reference f, which has no bound
\* value on the target, while documents pointed at its elements
C26_Case(f) ==
  /\ last.op = "deleteOne"
  /\ f \in References(last.doc)
  /\ Unbound(f, last.pre[last.doc])
  /\ Referencing(last.pre, f, last.pre[last.doc].arr) # {}

\* the effect of block, and of no other policy
C26_Blocked(f) == last.err = SubRefConstraintError /\ store = last.pre

\* the effect of cascade, and of no other policy: the call passed and the
\* referencing documents are gone with the target, or a dependent of theirs
\* blocked it and those still there point where they did
C26_Cascaded(f) ==
  LET R == Referencing(last.pre, f, last.pre[last.doc].arr)
  IN IF last.err = NoError
     THEN ~store[last.doc].here /\ \A x \in R : ~store[x].here
     ELSE /\ store[last.doc].here
          /\ \A x \in R : store[x].here => store[x].ref = last.pre[x].ref

\* the effect of set-null, and of no other policy
C26_Nulled(f) ==
  LET R == Referencing(last.pre, f, last.pre[last.doc].arr)
  IN /\ last.err = NoError
     /\ ~store[last.doc].here
     /\ \A x \in R : store[x] = Unset(last.pre[x], f, last.pre[last.doc].arr)

\* C26: an enforcement applies the one policy its reference's flags name:
\* required and not cascade blocks, required and cascade cascades, not
\* required sets null, whatever the cascade flag
C26_PolicyDispatch ==
  \A f \in Fields :
    C26_Case(f) =>
      /\ (schemaTypes[f].required /\ ~schemaTypes[f].cascade) => C26_Blocked(f)
      /\ (schemaTypes[f].required /\ schemaTypes[f].cascade) => C26_Cascaded(f)
      /\ ~schemaTypes[f].required => C26_Nulled(f)

\* a not-required reference with the cascade flag set was set to null
C26_Witness ==
  /\ C26_Case("Message.contact")
  /\ ~schemaTypes["Message.contact"].required
  /\ schemaTypes["Message.contact"].cascade
  /\ store["m1"].here /\ last.pre["m1"].ref # Null /\ store["m1"].ref = Null

\* ------------------------------------------------------------------ C27

\* segment i of the path (from 1) is not the last and is an array of
\* sub-documents
C27_ArrayAt(path, i) == i < Len(path) /\ path[i] \in ArraySegments

\* the token that follows segment i
C27_Token(path, i) ==
  IF ~C27_ArrayAt(path, i) THEN <<>>
  ELSE IF \E k \in (i + 1)..Len(path) : C27_ArrayAt(path, k) THEN <<"$[]">>
       ELSE <<"$[j]">>

RECURSIVE C27_Path(_, _)
C27_Path(path, i) ==
  IF i > Len(path) THEN <<>>
  ELSE <<path[i]>> \o C27_Token(path, i) \o C27_Path(path, i + 1)

\* C27: the update path is the path's segments in order, with '$[j]' after the
\* last non-terminal segment that is an array of sub-documents, '$[]' after
\* every earlier such segment, and no token after any other segment
C27_UpdatePathTokens ==
  inst.doc = "Tree" => inst.update.updatePath = C27_Path(inst.path, 1)

\* two array segments with a plain one between them
C27_Witness ==
  /\ inst.doc = "Tree"
  /\ inst.path = <<"as", "c", "bs", "ref">>
  /\ inst.update.updatePath = <<"as", "$[]", "c", "bs", "$[j]", "ref">>

\* ------------------------------------------------------------------ C28

\* the segments after the last non-terminal array segment
RECURSIVE C28_After(_)
C28_After(path) ==
  IF \E i \in 1..(Len(path) - 1) : path[i] \in ArraySegments
  THEN C28_After(Tail(path))
  ELSE path

\* C28: the update carries an arrayFilters entry exactly when the path has a
\* non-terminal segment that is an array of sub-documents; its condition is
\* 'in the removed values' on the segments after the last such segment up to
\* the terminal one, scoped to the named filter j
C28_ArrayFilterCondition ==
  inst.doc = "Tree" =>
    IF \E i \in 1..(Len(inst.path) - 1) : inst.path[i] \in ArraySegments
    THEN inst.update.arrayFilters =
           <<[path |-> <<"j">> \o C28_After(inst.path), values |-> inst.values]>>
    ELSE inst.update.arrayFilters = <<>>

\* the condition of a path with two array segments
C28_Witness ==
  /\ inst.doc = "Tree"
  /\ inst.path = <<"as", "bs", "c", "ref">>
  /\ inst.values = {"c0", "c1"}
  /\ inst.update.arrayFilters = <<[path |-> <<"j", "c", "ref">>, values |-> {"c0", "c1"}]>>

\* ------------------------------------------------------------------ C29

\* deleteOne() was called on a target of reference f
C29_Case(f) ==
  /\ last.op = "deleteOne"
  /\ f \in References(last.doc)

\* the documents the enforcement of f is about: the one stored referencing
\* document the target's bound field names when f declares boundTo and the
\* field holds a value, else those whose reference holds an element of the
\* target's array
C29_Selected(f) ==
  IF Unbound(f, last.pre[last.doc])
  THEN Referencing(last.pre, f, last.pre[last.doc].arr)
  ELSE {x \in DocIds : /\ x = last.pre[last.doc].owner
                       /\ ModelOf(x) = Decl(f).modelName
                       /\ last.pre[x].here}

\* the referencing documents of f that are not selected are as they were
C29_OthersKept(f) ==
  \A x \in DocIds :
    (ModelOf(x) = Decl(f).modelName /\ x \notin C29_Selected(f)) => store[x] = last.pre[x]

\* C29: block, cascade and set-null act on the selected documents and on no
\* other: block fails exactly when one is selected, cascade removes the
\* selected ones, set-null clears the reference of the selected ones
C29_QueryScope ==
  \A f \in Fields :
    C29_Case(f) =>
      /\ C29_OthersKept(f)
      /\ IsBlock(f) => (last.err = SubRefConstraintError <=> C29_Selected(f) # {})
      /\ (IsCascade(f) /\ last.err = NoError) => \A x \in C29_Selected(f) : ~store[x].here
      /\ IsNotRequired(f) =>
           /\ last.err = NoError
           /\ \A x \in C29_Selected(f) :
                store[x] = ApplyUpdate(last.pre[x],
                                       getUpdateQueryObjectFor(Decl(f).modelName, Decl(f).path,
                                                               last.pre[last.doc].arr))

\* the bound message was cleared though it pointed nowhere, and the message
\* that points at an element of the deleted person was kept
C29_Witness ==
  /\ C29_Case("Message.contact")
  /\ IsNotRequired("Message.contact")
  /\ ~Unbound("Message.contact", last.pre[last.doc])
  /\ C29_Selected("Message.contact") = {"m1"}
  /\ store["m1"].ref = Null
  /\ store["m2"].here /\ store["m2"].ref \in last.pre[last.doc].arr

\* the same with no bound value: both messages that point at it were cleared
C29_WitnessUnbound ==
  /\ C29_Case("Message.contact")
  /\ IsNotRequired("Message.contact")
  /\ Unbound("Message.contact", last.pre[last.doc])
  /\ C29_Selected("Message.contact") = {"m1", "m2"}
  /\ store["m1"].ref = Null /\ store["m2"].ref = Null

\* ------------------------------------------------------------------ C30

\* this step registers a model that is registered already
C30_RegistersAgain ==
  /\ last'.op = "register"
  /\ Registered(last'.doc)

\* C30: registering a model a second time leaves the registry list of every
\* target model as it was and adds no second validator for a reference
C30_ReRegistrationIdempotent ==
  [][C30_RegistersAgain => refs' = refs /\ validators' = validators]_vars

\* ------------------------------------------------------------------ C31

\* this step resolves a future of subRefsUpdates(): one that was pending, or
\* the one the call of this step returns
C31_Resolves ==
  \E k \in DOMAIN inst'.futs :
    /\ inst'.futs[k] = "resolved"
    /\ (k \in DOMAIN inst.futs => inst.futs[k] = "pending")

\* instance i has deferred removers that are enqueued or running
C31_Deferred(i) ==
  \/ i.queue # <<>>
  \/ \E k \in DOMAIN i.calls : i.calls[k].status = "running"

\* C31: no future of subRefsUpdates() is resolved while the instance has
\* deferred removers enqueued or running, a call made after a later save()
\* enqueued removers on an instance whose earlier batch has finished included
C31_NeverEarly ==
  [][C31_Resolves => ~C31_Deferred(inst')]_vars

\* the part of C31 about enqueued removers alone: no future is resolved while
\* the queue of the instance holds a remover
C31_NeverEarlyEnqueued ==
  [][C31_Resolves => inst'.queue = <<>>]_vars

\* ------------------------------------------------------------------ C32

\* this step runs the deferred remover k of a not-required reference: one
\* set-null bulk update
C32_SetNull(k) ==
  /\ k \in DOMAIN inst.tasks
  /\ inst.tasks[k] = "running"
  /\ inst'.tasks[k] # "running"
  /\ IsNotRequired(inst.queue[k].schemaType)

\* the values of a reference field that are not among the removed ones
C32_Others(f, document, removed) ==
  IF Decl(f).constructor = "SchemaArray" THEN document.ref \ removed
  ELSE IF document.ref \in removed THEN {} ELSE {document.ref}

\* C32: a set-null bulk update, with or without boundTo and for a scalar or
\* an array reference field, leaves every reference value that is not removed
\* in place and every referencing document that holds no removed value as it
\* was
C32_SetNullFrame ==
  [][\A k \in DOMAIN inst.tasks :
       C32_SetNull(k) =>
         LET f == inst.queue[k].schemaType
             removed == inst.queue[k].removed
         IN \A x \in DocIds :
              ModelOf(x) = Decl(f).modelName =>
                /\ C32_Others(f, store[x], removed) \subseteq C32_Others(f, store'[x], removed)
                /\ ~Holds(store[x], f, removed) => store'[x] = store[x]]_vars

\* the same for the updates that select by containment: the reference has no
\* bound value on the saved document
C32_SetNullFrameUnbound ==
  [][\A k \in DOMAIN inst.tasks :
       (C32_SetNull(k) /\ Unbound(inst.queue[k].schemaType, store[inst.doc])) =>
         LET f == inst.queue[k].schemaType
             removed == inst.queue[k].removed
         IN \A x \in DocIds :
              ModelOf(x) = Decl(f).modelName =>
                /\ C32_Others(f, store[x], removed) \subseteq C32_Others(f, store'[x], removed)
                /\ ~Holds(store[x], f, removed) => store'[x] = store[x]]_vars

\* ------------------------------------------------------------------ C33

\* the client's deleteOne() or softDelete() has returned, with or without an
\* error
C33_Completed == inst.result # "none"

C33_NoReentry ==
  \A i, j \in DOMAIN inst.stack : inst.stack[i].doc = inst.stack[j].doc => i = j

\* a run that is no longer kept is never returned to: once a run was
\* forgotten, the outermost run that is kept never ends
C33_NoWayBack ==
  (inst.forgot /\ Len(inst.stack) = 1) =>
     ~(Top.found = {} /\ (Top.err # NoError \/ Top.entries = <<>>))

\* runs are forgotten only while a document has two removals in flight
C33_ForgotOnReentry == inst.forgot => ~C33_NoReentry

\* both references are cascade references
C33_BothCascade ==
  \A f \in LoopFields : schemaTypes[f].required /\ schemaTypes[f].cascade

\* the delete completes when the two references are not both cascade
\* references
C33_OneWayTerminates == (inst.op # "none" /\ ~C33_BothCascade) ~> C33_Completed

====
